---- MODULE Spec2Model ----
(***************************************************************************)
(* Warm Delights backend: the GlobalImageStorage class of server.js (the   *)
(* gallery registry, the analytics log, the order ledger, the session      *)
(* cache, the admin sessions, the two JSON files behind them) and the      *)
(* route handlers and the periodic cleanup that drive it.                  *)
(*                                                                         *)
(* Time is Date.now() in milliseconds.  JavaScript values that can be      *)
(* NaN, null or undefined are tagged records (Num, NaN, Null, Undef).      *)
(* Math.random() is modelled as a value that never repeats (rnd).          *)
(***************************************************************************)
EXTENDS Integers, Sequences, FiniteSets, TLC

VARIABLES
    now,              \* Date.now(), ms
    images,           \* this.images
    analyticsEvents,  \* this.analyticsEvents
    orders,           \* this.orders
    orderIdCounter,   \* this.orderIdCounter
    sessionCache,     \* this.sessionCache (Map: key -> entry)
    adminSessions,    \* this.adminSessions (Map: sessionId -> session)
    dataFile,         \* content of global_gallery.json
    sessionFile,      \* content of session_cache.json
    uploadDir,        \* file names present in uploads/
    fsMode,           \* environment: how the next file write ends
    nextSweep,        \* instant at which the setInterval callback is due
    pending,          \* requests suspended at an await / async callback
    rnd,              \* next Math.random() draw
    transporter,      \* whether the mail transporter was configured
    tokens,           \* bearer tokens handed out by login (client side)
    resp,             \* the last response sent (n counts the responses)
    hist              \* history: events tracked, order ids and image ids given

vars == <<now, images, analyticsEvents, orders, orderIdCounter, sessionCache,
          adminSessions, dataFile, sessionFile, uploadDir, fsMode, nextSweep,
          pending, rnd, transporter, tokens, resp, hist>>

(***************************************************************************)
(* Program constants                                                       *)
(***************************************************************************)
OneMinute == 60 * 1000
CacheTTL == 15 * 60 * 1000
MsPerHour == 1000 * 60 * 60
SessionMaxHours == 2
SweepInterval == 30 * 60 * 1000
TokenLifetime == 2 * MsPerHour
MemCap == 10000
DiskCap == 5000
InitialOrderId == 1
FourDigitIds == 9999

(***************************************************************************)
(* Bounds of the model                                                     *)
(***************************************************************************)
MaxResponses == 4
MaxSlots == 2
MaxSessionSlots == 10
MaxSessionResponses == 3
MaxSessionUploads == 1
MaxOrderResponses == 3
MaxPersistResponses == 3
MaxRetentionResponses == 3
MaxLedgerResponses == 4
MaxLookups == 4
MaxStartupResponses == 3
MaxUploads == 2
MaxOrders == 2
MaxLogins == 1
MaxRestarts == 1
MaxDrift == 2

(***************************************************************************)
(* JavaScript values                                                       *)
(***************************************************************************)
Num(n) == [t |-> "number", v |-> n]
NaN == [t |-> "NaN", v |-> 0]
Null == [t |-> "null", v |-> 0]
Undef == [t |-> "undefined", v |-> 0]

\* a * b on JavaScript numbers read from a parsed item
JsMul(a, b) ==
    IF a.t = "number" /\ b.t = "number" THEN Num(a.v * b.v)
    ELSE IF a.t = "null" /\ b.t \in {"number", "null"} THEN Num(0)
    ELSE IF b.t = "null" /\ a.t = "number" THEN Num(0)
    ELSE NaN

JsAdd(a, b) ==
    IF a.t = "number" /\ b.t = "number" THEN Num(a.v + b.v) ELSE NaN

\* JSON.parse(JSON.stringify(x)) of a number slot: NaN is written as null
JsonNumber(x) == IF x.t = "NaN" THEN Null ELSE x

\* x || d
OrDefault(x, d) == IF x.t \in {"undefined", "null", "NaN"} \/ (x.t = "number" /\ x.v = 0) THEN d ELSE x.v

\* array.slice(-n) for n > 0
Last(seq, n) == IF Len(seq) <= n THEN seq ELSE SubSeq(seq, Len(seq) - n + 1, Len(seq))

\* array.slice(0).reverse()
Reverse(seq) == [i \in 1..Len(seq) |-> seq[Len(seq) + 1 - i]]

RemoveAt(seq, i) == SubSeq(seq, 1, i - 1) \o SubSeq(seq, i + 1, Len(seq))

\* Strings are sequences of one-character strings
DigitChars == <<"0", "1", "2", "3", "4", "5", "6", "7", "8", "9">>

\* n.toString() for an integer n >= 0
RECURSIVE NumberToString(_)
NumberToString(n) ==
    IF n < 10 THEN <<DigitChars[n + 1]>>
    ELSE NumberToString(n \div 10) \o <<DigitChars[(n % 10) + 1]>>

\* str.padStart(len, ch)
RECURSIVE PadStart(_, _, _)
PadStart(str, len, ch) == IF Len(str) >= len THEN str ELSE PadStart(<<ch>> \o str, len, ch)

\* `WD${order.id.toString().padStart(4, '0')}`
FormatOrderId(n) == <<"W", "D">> \o PadStart(NumberToString(n), 4, "0")

\* str.replace(pat, ''): the first occurrence of pat is taken out
RECURSIVE ReplaceFirst(_, _)
ReplaceFirst(str, pat) ==
    IF Len(str) < Len(pat) THEN str
    ELSE IF SubSeq(str, 1, Len(pat)) = pat THEN SubSeq(str, Len(pat) + 1, Len(str))
    ELSE <<Head(str)>> \o ReplaceFirst(Tail(str), pat)

DigitValue(ch) == CHOOSE d \in 0..9 : DigitChars[d + 1] = ch

IsDigit(ch) == \E d \in 0..9 : DigitChars[d + 1] = ch

\* the longest prefix of str made of digits
RECURSIVE DigitPrefix(_)
DigitPrefix(str) ==
    IF str = <<>> \/ ~IsDigit(Head(str)) THEN <<>>
    ELSE <<Head(str)>> \o DigitPrefix(Tail(str))

RECURSIVE DigitsValue(_)
DigitsValue(ds) ==
    IF ds = <<>> THEN 0
    ELSE 10 * DigitsValue(SubSeq(ds, 1, Len(ds) - 1)) + DigitValue(ds[Len(ds)])

\* mutant of ParseInt: a leading 0 announces an octal number, as parseInt
\* read it before ES5
RECURSIVE OctalValue(_)
OctalValue(ds) ==
    IF ds = <<>> \/ DigitValue(Head(ds)) > 7 THEN 0
    ELSE LET rest == OctalValue(Tail(ds)) IN
         IF Tail(ds) # <<>> /\ DigitValue(ds[2]) > 7 THEN DigitValue(Head(ds))
         ELSE rest + DigitValue(Head(ds)) * (IF Tail(ds) = <<>> THEN 1 ELSE 8)

ParseIntOctal(str) ==
    IF DigitPrefix(str) = <<>> THEN NaN
    ELSE IF Head(str) = "0" THEN Num(OctalValue(DigitPrefix(str)))
    ELSE Num(DigitsValue(DigitPrefix(str)))

\* parseInt(str) of a string without sign or leading blanks: the value of
\* its leading digits, NaN when it has none
ParseInt(str) == IF DigitPrefix(str) = <<>> THEN NaN ELSE Num(DigitsValue(DigitPrefix(str)))

(***************************************************************************)
(* Files.  A file is absent, unparseable, or a JSON document.              *)
(***************************************************************************)
Absent == [kind |-> "absent"]
Corrupt == [kind |-> "corrupt"]

DataKeys == {"images", "analytics", "orders", "orderIdCounter"}

\* fs.writeFileSync(file, text): "ok" writes; "openfail" throws before the
\* file is touched; "writefail" throws after the file was truncated.
WriteFile(old, content, mode) ==
    CASE mode = "ok" -> content
      [] mode = "openfail" -> old
      [] mode = "writefail" -> Corrupt

\* JSON.parse(JSON.stringify(order))
JsonOrder(o) == [o EXCEPT !.totalAmount = JsonNumber(@)]

JsonOrders(os) == [i \in 1..Len(os) |-> JsonOrder(os[i])]

\* JSON.parse(JSON.stringify(event)): the data of an order_placed event
\* carries the order's totalAmount
JsonEvent(e) ==
    IF e.type = "order_placed"
    THEN [e EXCEPT !.data = [@ EXCEPT !.totalAmount = JsonNumber(@)]]
    ELSE e

JsonEvents(es) == [i \in 1..Len(es) |-> JsonEvent(es[i])]

(***************************************************************************)
(* class GlobalImageStorage.  Each method is an operator from the store    *)
(* before the call (s) and the clock (t) to the store after it.            *)
(***************************************************************************)
Store ==
    [images |-> images, analyticsEvents |-> analyticsEvents, orders |-> orders,
     orderIdCounter |-> orderIdCounter, sessionCache |-> sessionCache,
     adminSessions |-> adminSessions, dataFile |-> dataFile,
     sessionFile |-> sessionFile, fs |-> fsMode, h |-> hist]

\* the state of a new GlobalImageStorage() before init() runs
Constructed(df, sf, mode, h) ==
    [images |-> <<>>, analyticsEvents |-> <<>>, orders |-> <<>>,
     orderIdCounter |-> InitialOrderId, sessionCache |-> <<>>,
     adminSessions |-> <<>>, dataFile |-> df, sessionFile |-> sf,
     fs |-> mode, h |-> h]

\* mutant of LoadGalleryData: the load of the revision without orders
LoadGalleryDataNoOrders(s) ==
    LET f == s.dataFile IN
    CASE f.kind = "absent" -> s
      [] f.kind = "corrupt" -> [s EXCEPT !.images = <<>>, !.analyticsEvents = <<>>]
      [] f.kind = "json" ->
            [s EXCEPT
                !.images = IF "images" \in f.keys THEN f.images ELSE <<>>,
                !.analyticsEvents = IF "analytics" \in f.keys THEN f.analytics ELSE <<>>]

\* mutant of LoadGalleryData: a file that lacks a field is not used at all
LoadGalleryDataWholeOnly(s) ==
    LET f == s.dataFile IN
    IF f.kind = "json" /\ f.keys = DataKeys
    THEN [s EXCEPT !.images = f.images, !.analyticsEvents = f.analytics,
                   !.orders = f.orders,
                   !.orderIdCounter = IF f.orderIdCounter # 0 THEN f.orderIdCounter ELSE 1]
    ELSE [s EXCEPT !.images = <<>>, !.analyticsEvents = <<>>, !.orders = <<>>]

LoadGalleryData(s) ==
    LET f == s.dataFile IN
    CASE f.kind = "absent" -> s
      [] f.kind = "corrupt" ->
            [s EXCEPT !.images = <<>>, !.analyticsEvents = <<>>, !.orders = <<>>]
      [] f.kind = "json" ->
            [s EXCEPT
                !.images = IF "images" \in f.keys THEN f.images ELSE <<>>,
                !.analyticsEvents = IF "analytics" \in f.keys THEN f.analytics ELSE <<>>,
                !.orders = IF "orders" \in f.keys THEN f.orders ELSE <<>>,
                !.orderIdCounter =
                    IF "orderIdCounter" \in f.keys /\ f.orderIdCounter # 0
                    THEN f.orderIdCounter ELSE 1]

SnapshotOf(s, t) ==
    [kind |-> "json", keys |-> DataKeys,
     images |-> s.images,
     analytics |-> JsonEvents(Last(s.analyticsEvents, DiskCap)),
     orders |-> JsonOrders(s.orders),
     orderIdCounter |-> s.orderIdCounter,
     lastUpdated |-> t]

\* mutant of SaveGalleryData: the write is only queued (fs.writeFile), not done
SaveGalleryDataQueued(s, t) == s

SaveGalleryData(s, t) ==
    [s EXCEPT !.dataFile = WriteFile(@, SnapshotOf(s, t), s.fs)]

\* an entry read back from the file is a copy: it no longer shares its
\* image objects with this.images (live = FALSE)
LoadSessionData(s) ==
    LET f == s.sessionFile IN
    IF f.kind = "json"
    THEN [s EXCEPT !.sessionCache =
            [k \in DOMAIN f.map |-> [data |-> f.map[k].data,
                                     timestamp |-> f.map[k].timestamp,
                                     expires |-> f.map[k].expires,
                                     live |-> FALSE]]]
    ELSE s

SessionDocOf(s) ==
    [kind |-> "json",
     map |-> [k \in DOMAIN s.sessionCache |->
                [data |-> s.sessionCache[k].data,
                 timestamp |-> s.sessionCache[k].timestamp,
                 expires |-> s.sessionCache[k].expires]]]

SaveSessionData(s) ==
    [s EXCEPT !.sessionFile = WriteFile(@, SessionDocOf(s), s.fs)]

\* init(): loadGalleryData(); loadSessionData()
InitStorage(df, sf, mode, h) ==
    LoadSessionData(LoadGalleryData(Constructed(df, sf, mode, h)))

\* images.filter(img => img.isPublic)
RECURSIVE PublicOnly(_)
PublicOnly(seq) ==
    IF seq = <<>> THEN <<>>
    ELSE (IF Head(seq).isPublic THEN <<Head(seq)>> ELSE <<>>) \o PublicOnly(Tail(seq))

\* mutant of InsertByDate: x goes in front of the elements of its own date
RECURSIVE InsertByDateInFront(_, _)
InsertByDateInFront(sorted, x) ==
    IF sorted = <<>> THEN <<x>>
    ELSE IF Head(sorted).uploadedAt > x.uploadedAt
         THEN <<Head(sorted)>> \o InsertByDateInFront(Tail(sorted), x)
         ELSE <<x>> \o sorted

\* x goes behind every element that does not sort after it (stable)
RECURSIVE InsertByDate(_, _)
InsertByDate(sorted, x) ==
    IF sorted = <<>> THEN <<x>>
    ELSE IF Head(sorted).uploadedAt >= x.uploadedAt
         THEN <<Head(sorted)>> \o InsertByDate(Tail(sorted), x)
         ELSE <<x>> \o sorted

\* .sort((a, b) => new Date(b.uploadedAt) - new Date(a.uploadedAt))
RECURSIVE SortNewestFirst(_)
SortNewestFirst(seq) ==
    IF seq = <<>> THEN <<>>
    ELSE InsertByDate(SortNewestFirst(SubSeq(seq, 1, Len(seq) - 1)), seq[Len(seq)])

getPublicImages(s) == SortNewestFirst(PublicOnly(s.images))

\* updateSessionCache(key, value), which reads the clock twice: t1 is the
\* Date.now() of timestamp, t2 the Date.now() of expires
updateSessionCacheAt(s, key, value, t1, t2) ==
    SaveSessionData(
        [s EXCEPT !.sessionCache =
            [k \in (DOMAIN @) \cup {key} |->
                IF k = key
                THEN [data |-> value, timestamp |-> t1, expires |-> t2 + CacheTTL,
                      live |-> TRUE]
                ELSE @[k]]])

\* updateSessionCache(key, value) when both reads fall into the millisecond t
updateSessionCache(s, key, value, t) == updateSessionCacheAt(s, key, value, t, t)

\* mutant of CacheHit: an entry is still served at the instant it expires
CacheHitAtExpiry(s, key, t) == key \in DOMAIN s.sessionCache /\ s.sessionCache[key].expires >= t

CacheHit(s, key, t) == key \in DOMAIN s.sessionCache /\ s.sessionCache[key].expires > t

\* the value returned by getFromSessionCache (<<>> stands for null only in
\* CacheHit's negation; callers test CacheHit first)
CacheData(s, key) == s.sessionCache[key].data

\* the store after getFromSessionCache(key)
getFromSessionCache(s, key, t) ==
    IF CacheHit(s, key, t) THEN s
    ELSE [s EXCEPT !.sessionCache = [k \in (DOMAIN @) \ {key} |-> @[k]]]

clearExpiredSessions(s, t) ==
    LET gone == {k \in DOMAIN s.sessionCache : s.sessionCache[k].expires < t}
        kept == [s EXCEPT !.sessionCache = [k \in (DOMAIN @) \ gone |-> @[k]]]
    IN IF gone # {} THEN SaveSessionData(kept) ELSE s

NewImage(imageData, t) ==
    [id |-> t, filename |-> imageData.filename, uploadedBy |-> imageData.uploadedBy,
     uploadedAt |-> t, views |-> 0, isPublic |-> TRUE]

\* mutant of addImage: the cache entry is left for a later turn to refresh
addImageCacheLater(s, imageData, t) ==
    SaveGalleryData([s EXCEPT !.images = Append(@, NewImage(imageData, t)),
                              !.h.imageIds = Append(@, t)], t)

addImage(s, imageData, t) ==
    LET pushed == [s EXCEPT !.images = Append(@, NewImage(imageData, t)),
                            !.h.imageIds = Append(@, t)]
        saved == SaveGalleryData(pushed, t)
    IN updateSessionCache(saved, "gallery", getPublicImages(saved), t)

\* images.findIndex(img => img.id === imageId), 0 for -1
ImageIndex(s, imageId) ==
    IF \E i \in 1..Len(s.images) : s.images[i].id = imageId
    THEN CHOOSE i \in 1..Len(s.images) :
            /\ s.images[i].id = imageId
            /\ \A j \in 1..(i - 1) : s.images[j].id # imageId
    ELSE 0

\* mutant of removeImage: the 'gallery' cache entry is left as it was
removeImageCacheKept(s, imageId, t) ==
    LET i == ImageIndex(s, imageId) IN
    IF i = 0 THEN s
    ELSE SaveGalleryData([s EXCEPT !.images = RemoveAt(@, i)], t)

\* mutant of removeImage: the last record is spliced out, whatever its id
removeImageLast(s, imageId, t) ==
    LET i == ImageIndex(s, imageId) IN
    IF i = 0 THEN s
    ELSE LET spliced == [s EXCEPT !.images = RemoveAt(@, Len(@))]
             saved == SaveGalleryData(spliced, t)
         IN updateSessionCache(saved, "gallery", getPublicImages(saved), t)

removeImage(s, imageId, t) ==
    LET i == ImageIndex(s, imageId) IN
    IF i = 0 THEN s
    ELSE LET spliced == [s EXCEPT !.images = RemoveAt(@, i)]
             saved == SaveGalleryData(spliced, t)
         IN updateSessionCache(saved, "gallery", getPublicImages(saved), t)

\* images.find(img => img.filename === filename), 0 for undefined
FileIndex(s, filename) ==
    IF \E i \in 1..Len(s.images) : s.images[i].filename = filename
    THEN CHOOSE i \in 1..Len(s.images) :
            /\ s.images[i].filename = filename
            /\ \A j \in 1..(i - 1) : s.images[j].filename # filename
    ELSE 0

\* image.views = (image.views || 0) + 1.  The image object is shared with
\* every cache entry that was filled in this process (live), so the
\* assignment shows through the entry's data as well.
Viewed(list, filename) ==
    [j \in 1..Len(list) |->
        IF list[j].filename = filename THEN [list[j] EXCEPT !.views = @ + 1]
        ELSE list[j]]

\* mutant of incrementImageViews: find() without its test, which gives the
\* first record whatever the filename
incrementImageViewsFirst(s, filename, t) ==
    IF s.images = <<>> THEN s
    ELSE SaveGalleryData([s EXCEPT !.images[1].views = @ + 1], t)

\* mutant of incrementImageViews: the view is written to the analytics log
\* as well
incrementImageViewsLogged(s, filename, t) ==
    LET i == FileIndex(s, filename)
        event == [id |-> t, type |-> "image_view", data |-> [filename |-> filename]]
    IN IF i = 0 THEN s
       ELSE SaveGalleryData([s EXCEPT !.images[i].views = @ + 1,
                                      !.analyticsEvents = Append(@, event)], t)

incrementImageViews(s, filename, t) ==
    LET i == FileIndex(s, filename) IN
    IF i = 0 THEN s
    ELSE SaveGalleryData(
            [s EXCEPT !.images[i].views = @ + 1,
                      !.sessionCache =
                        [k \in DOMAIN @ |->
                            IF @[k].live
                            THEN [@[k] EXCEPT !.data = Viewed(@, filename)]
                            ELSE @[k]]], t)

ViewsReturned(s, filename) ==
    IF FileIndex(s, filename) = 0 THEN 0 ELSE s.images[FileIndex(s, filename)].views + 1

NewEvent(eventType, data, t) == [id |-> t, type |-> eventType, data |-> data]

\* mutant of trackEvent: the log is never cut
trackEventUncapped(s, eventType, data, t) ==
    SaveGalleryData(
        [s EXCEPT !.analyticsEvents = Append(@, NewEvent(eventType, data, t)),
                  !.h.events = Append(@, NewEvent(eventType, data, t))], t)

trackEvent(s, eventType, data, t) ==
    LET pushed == Append(s.analyticsEvents, NewEvent(eventType, data, t))
        capped == IF Len(pushed) > MemCap THEN Last(pushed, MemCap) ELSE pushed
    IN SaveGalleryData(
            [s EXCEPT !.analyticsEvents = capped,
                      !.h.events = Append(@, NewEvent(eventType, data, t))], t)

NewOrder(s, orderData, t) ==
    [id |-> s.orderIdCounter, customerName |-> orderData.customerName,
     items |-> orderData.items, referenceImage |-> orderData.referenceImage,
     totalAmount |-> orderData.totalAmount, status |-> "pending", createdAt |-> t]

addOrder(s, orderData, t) ==
    SaveGalleryData(
        [s EXCEPT !.orderIdCounter = @ + 1,
                  !.orders = Append(@, NewOrder(s, orderData, t)),
                  !.h.orderIds = Append(@, s.orderIdCounter)], t)

\* `session_${Date.now()}_${Math.random().toString(36)}`
SessionId(t, r) == <<t, r>>

\* mutant of createAdminSession: the session is not put into the map
createAdminSessionUnrecorded(s, username, t, r) == s

createAdminSession(s, username, t, r) ==
    [s EXCEPT !.adminSessions =
        [k \in (DOMAIN @) \cup {SessionId(t, r)} |->
            IF k = SessionId(t, r) THEN [username |-> username, loginTime |-> t]
            ELSE @[k]]]

\* mutant of removeAdminSession: the entry is not deleted
removeAdminSessionKept(s, sessionId) == s

validateAdminSession(s, sessionId) == sessionId \in DOMAIN s.adminSessions

removeAdminSession(s, sessionId) ==
    [s EXCEPT !.adminSessions = [k \in (DOMAIN @) \ {sessionId} |-> @[k]]]

(***************************************************************************)
(* Bearer credentials.  A request carries no Authorization header, or a    *)
(* token; jwt.verify accepts a token that is signed with JWT_SECRET and    *)
(* not yet at its exp claim.                                               *)
(***************************************************************************)
NoSession == <<0, 0>>

NoCred ==
    [kind |-> "none", signed |-> FALSE, isAdmin |-> FALSE,
     sessionId |-> NoSession, exp |-> 0]

\* jwt.sign({username, isAdmin: true, sessionId}, JWT_SECRET, {expiresIn: '2h'})
SignToken(sessionId, t) ==
    [kind |-> "bearer", signed |-> TRUE, isAdmin |-> TRUE,
     sessionId |-> sessionId, exp |-> t + TokenLifetime]

\* a token with a wrong signature, and a token signed with the secret whose
\* payload has no isAdmin
BadSignature(c) == [c EXCEPT !.signed = FALSE]
NonAdmin(c) == [c EXCEPT !.isAdmin = FALSE]

\* what a client may send: nothing, any token it was given, or one of those
\* re-signed
Creds == {NoCred} \cup tokens \cup {BadSignature(c) : c \in tokens}
            \cup {NonAdmin(c) : c \in tokens}

\* mutant of authMiddleware: the session map is not consulted
authMiddlewareTokenOnly(s, c, t) ==
    IF c.kind = "none" THEN 401
    ELSE IF ~c.signed \/ t >= c.exp THEN 401
    ELSE IF ~c.isAdmin THEN 403
    ELSE 0

\* authMiddleware: 0 stands for next()
authMiddleware(s, c, t) ==
    IF c.kind = "none" THEN 401
    ELSE IF ~c.signed \/ t >= c.exp THEN 401
    ELSE IF ~c.isAdmin THEN 403
    ELSE IF ~validateAdminSession(s, c.sessionId) THEN 401
    ELSE 0

(***************************************************************************)
(* Plumbing of the actions                                                 *)
(***************************************************************************)
Commit(s) ==
    /\ images' = s.images
    /\ analyticsEvents' = s.analyticsEvents
    /\ orders' = s.orders
    /\ orderIdCounter' = s.orderIdCounter
    /\ sessionCache' = s.sessionCache
    /\ adminSessions' = s.adminSessions
    /\ dataFile' = s.dataFile
    /\ sessionFile' = s.sessionFile
    /\ hist' = s.h

Respond(route, status, c, body) ==
    resp' = [n |-> resp.n + 1, route |-> route, status |-> status, cred |-> c,
             body |-> body]

NoBody == [none |-> TRUE]

\* the fields GET /api/gallery copies out of each image
Served(list) ==
    [i \in 1..Len(list) |->
        [id |-> list[i].id, filename |-> list[i].filename,
         views |-> list[i].views, uploadedAt |-> list[i].uploadedAt]]

(***************************************************************************)
(* Route handlers                                                          *)
(***************************************************************************)
\* POST /api/admin/login.  input: "missing", "wrong" or "right"
Login(input) ==
    /\ Len(hist.logins) < MaxLogins \/ input # "right"
    /\ UNCHANGED <<now, uploadDir, fsMode, nextSweep, pending, transporter>>
    /\ CASE input = "missing" ->
              /\ Respond("login", 400, NoCred, NoBody)
              /\ UNCHANGED <<images, analyticsEvents, orders, orderIdCounter,
                             sessionCache, adminSessions, dataFile, sessionFile,
                             hist, rnd, tokens>>
         [] input = "wrong" ->
              /\ Commit(trackEvent(Store, "admin_login_failed", NoBody, now))
              /\ Respond("login", 401, NoCred, NoBody)
              /\ UNCHANGED <<rnd, tokens>>
         [] input = "right" ->
              LET sid == SessionId(now, rnd)
                  made == createAdminSession(Store, "admin", now, rnd)
                  noted == [made EXCEPT !.h.logins =
                                Append(@, [sessionId |-> sid, at |-> now,
                                           run |-> hist.restarts])]
                  token == SignToken(sid, now)
              IN /\ Commit(trackEvent(noted, "admin_login_success",
                                      [sessionId |-> sid], now))
                 /\ tokens' = tokens \cup {token}
                 /\ rnd' = rnd + 1
                 /\ Respond("login", 200, NoCred, [token |-> token])

\* POST /api/admin/logout
Logout(c) ==
    /\ c \in Creds
    /\ UNCHANGED <<now, uploadDir, fsMode, nextSweep, pending, rnd, transporter, tokens>>
    /\ LET st == authMiddleware(Store, c, now) IN
       IF st # 0
       THEN /\ Respond("logout", st, c, NoBody)
            /\ UNCHANGED <<images, analyticsEvents, orders, orderIdCounter,
                           sessionCache, adminSessions, dataFile, sessionFile, hist>>
       ELSE LET removed == removeAdminSession(Store, c.sessionId)
                event == NewEvent("admin_logout", [sessionId |-> c.sessionId], now)
                pushed == [removed EXCEPT !.analyticsEvents = Append(@, event),
                                          !.h.events = Append(@, event),
                                          !.h.loggedOut = @ \cup {c.sessionId}]
            IN /\ Commit(IF validateAdminSession(Store, c.sessionId)
                         THEN pushed ELSE Store)
               /\ Respond("logout", 200, c, [success |-> TRUE])

\* POST /api/admin/gallery/upload, up to the start of upload.single('image').
\* outcome: "file" (stored), "error" (multer rejects it) or "nofile"
UploadStart(c, outcome) ==
    /\ c \in Creds
    /\ UNCHANGED <<now, images, analyticsEvents, orders, orderIdCounter, sessionCache,
                   adminSessions, dataFile, sessionFile, fsMode, nextSweep, tokens,
                   transporter, hist>>
    /\ LET st == authMiddleware(Store, c, now) IN
       IF st # 0
       THEN /\ Respond("upload", st, c, NoBody)
            /\ UNCHANGED <<pending, uploadDir, rnd>>
       ELSE /\ Len(hist.imageIds) + Cardinality({p \in pending : p.kind = "upload"})
                    < MaxUploads
            /\ pending' = pending \cup
                    {[kind |-> "upload", cred |-> c, outcome |-> outcome,
                      filename |-> <<now, rnd>>]}
            /\ uploadDir' = IF outcome = "file" THEN uploadDir \cup {<<now, rnd>>}
                            ELSE uploadDir
            /\ rnd' = rnd + 1
            /\ UNCHANGED resp

\* the callback of upload.single('image')
UploadFinish(p) ==
    /\ p \in pending
    /\ p.kind = "upload"
    /\ pending' = pending \ {p}
    /\ UNCHANGED <<now, uploadDir, fsMode, nextSweep, rnd, transporter, tokens>>
    /\ CASE p.outcome = "error" ->
              /\ Commit(trackEvent(Store, "admin_upload_failed",
                                   [sessionId |-> p.cred.sessionId], now))
              /\ Respond("upload", 400, p.cred, NoBody)
         [] p.outcome = "nofile" ->
              /\ Commit(Store)
              /\ Respond("upload", 400, p.cred, NoBody)
         [] p.outcome = "file" ->
              LET data == [filename |-> p.filename, uploadedBy |-> "admin"]
                  added == addImage(Store, data, now)
              IN /\ Commit(trackEvent(added, "admin_upload_success",
                                [sessionId |-> p.cred.sessionId,
                                 filename |-> p.filename], now))
                 /\ Respond("upload", 200, p.cred, [image |-> NewImage(data, now)])

\* GET /api/gallery
GetGallery ==
    /\ UNCHANGED <<now, uploadDir, fsMode, nextSweep, pending, rnd, transporter, tokens>>
    /\ LET hit == CacheHit(Store, "gallery", now)
           read == getFromSessionCache(Store, "gallery", now)
           list == IF hit THEN CacheData(Store, "gallery") ELSE getPublicImages(read)
           filled == IF hit THEN read ELSE updateSessionCache(read, "gallery", list, now)
           \* images === globalStorage.getFromSessionCache('gallery'): the entry
           \* now holds the very array that is being served
           same == CacheHit(filled, "gallery", now)
           source == IF same THEN "cache" ELSE "storage"
       IN /\ Commit(trackEvent(getFromSessionCache(filled, "gallery", now),
                               "gallery_viewed",
                               [imagesCount |-> Len(list), source |-> source], now))
          /\ Respond("gallery", 200, NoCred,
                     [images |-> Served(list), cached |-> same, hit |-> hit])

\* POST /api/images/:filename/view
ViewImage(filename) ==
    /\ UNCHANGED <<now, uploadDir, fsMode, nextSweep, pending, rnd, transporter, tokens>>
    /\ LET views == ViewsReturned(Store, filename)
           bumped == incrementImageViews(Store, filename, now)
       IN /\ Commit(trackEvent(bumped, "image_view",
                               [filename |-> filename, views |-> views], now))
          /\ Respond("view", 200, NoCred, [views |-> views])

\* DELETE /api/admin/gallery/:id.  unlinked: whether fs.unlinkSync succeeds
DeleteImage(c, imageId, unlinked) ==
    /\ c \in Creds
    /\ UNCHANGED <<now, fsMode, nextSweep, pending, rnd, transporter, tokens>>
    /\ LET st == authMiddleware(Store, c, now)
           i == ImageIndex(Store, imageId)
       IN IF st # 0
          THEN /\ Respond("delete", st, c, NoBody)
               /\ Commit(Store)
               /\ UNCHANGED uploadDir
          ELSE IF i = 0
          THEN /\ Respond("delete", 404, c, [id |-> imageId])
               /\ Commit(removeImage(Store, imageId, now))
               /\ UNCHANGED uploadDir
          ELSE LET gone == images[i]
                   removed == removeImage(Store, imageId, now)
               IN /\ uploadDir' = IF unlinked THEN uploadDir \ {gone.filename}
                                  ELSE uploadDir
                  /\ Commit(trackEvent(removed, "admin_image_deleted",
                                [sessionId |-> c.sessionId, imageId |-> imageId,
                                 filename |-> gone.filename], now))
                  /\ Respond("delete", 200, c,
                             [id |-> imageId, filename |-> gone.filename])

\* GET /api/admin/analytics
AdminAnalytics(c) ==
    /\ c \in Creds
    /\ UNCHANGED <<now, uploadDir, fsMode, nextSweep, pending, rnd, transporter, tokens>>
    /\ LET st == authMiddleware(Store, c, now) IN
       IF st # 0
       THEN /\ Respond("analytics", st, c, NoBody)
            /\ Commit(Store)
       ELSE /\ Commit(trackEvent(Store, "admin_analytics_viewed",
                                 [sessionId |-> c.sessionId], now))
            /\ Respond("analytics", 200, c,
                       [totalEvents |-> Len(analyticsEvents)])

\* POST /api/analytics/track.  eventType "" stands for a missing eventType;
\* data is what the client sends with it
Track(eventType, data) ==
    /\ UNCHANGED <<now, uploadDir, fsMode, nextSweep, pending, rnd, transporter, tokens>>
    /\ IF eventType = ""
       THEN /\ Respond("track", 400, NoCred, NoBody)
            /\ Commit(Store)
       ELSE /\ Commit(trackEvent(Store, eventType, data, now))
            /\ Respond("track", 200, NoCred, [eventId |-> now])

\* orders.slice(-limit).reverse()
getOrders(s, limit) ==
    Reverse(IF limit > 0 THEN Last(s.orders, limit)
            ELSE SubSeq(s.orders, 1 - limit, Len(s.orders)))

\* GET /api/admin/orders.  limit: parseInt(req.query.limit), NaN when absent
AdminOrders(c, limit) ==
    /\ c \in Creds
    /\ UNCHANGED <<now, uploadDir, fsMode, nextSweep, pending, rnd, transporter, tokens>>
    /\ LET st == authMiddleware(Store, c, now)
           list == getOrders(Store, OrDefault(limit, 50))
       IN IF st # 0
          THEN /\ Respond("orders", st, c, NoBody)
               /\ Commit(Store)
          ELSE /\ Commit(trackEvent(Store, "admin_orders_viewed",
                            [sessionId |-> c.sessionId, ordersCount |-> Len(list)],
                            now))
               /\ Respond("orders", 200, c,
                          [asked |-> limit, orders |-> list, totalOrders |-> Len(orders)])

\* parsedItems.reduce((total, item) => total + (item.price * item.quantity), 0)
RECURSIVE TotalAmount(_)
TotalAmount(items) ==
    IF items = <<>> THEN Num(0)
    ELSE JsAdd(TotalAmount(SubSeq(items, 1, Len(items) - 1)),
               JsMul(items[Len(items)].price, items[Len(items)].quantity))

NoFile == <<0, 0>>

\* the item lists a client sends
ItemLists ==
    { <<>>,
      <<[price |-> Num(100), quantity |-> Num(2)], [price |-> Num(50), quantity |-> Num(1)]>>,
      <<[price |-> Undef, quantity |-> Num(1)]>> }

\* POST /api/orders up to `await transporter.sendMail`.  contact: whether
\* customerName, email and phone are all there; json: whether the items
\* string parses; file: whether a reference image is attached
PlaceOrder(contact, json, items, file) ==
    /\ UNCHANGED <<now, fsMode, nextSweep, transporter, tokens>>
    /\ uploadDir' = IF file THEN uploadDir \cup {<<now, rnd>>} ELSE uploadDir
    /\ rnd' = IF file THEN rnd + 1 ELSE rnd
    /\ IF ~contact
       THEN /\ Respond("order", 400, NoCred, NoBody)
            /\ Commit(Store)
            /\ UNCHANGED pending
       ELSE IF ~json
       THEN /\ Respond("order", 500, NoCred, NoBody)
            /\ Commit(Store)
            /\ UNCHANGED pending
       ELSE /\ Len(hist.orderIds) < MaxOrders
            /\ LET orderData == [customerName |-> "c", items |-> items,
                                 referenceImage |-> IF file THEN <<now, rnd>> ELSE NoFile,
                                 totalAmount |-> TotalAmount(items)]
                   order == NewOrder(Store, orderData, now)
                   added == addOrder(Store, orderData, now)
               IN /\ Commit(trackEvent(added, "order_placed",
                                [orderId |-> order.id, totalAmount |-> order.totalAmount,
                                 itemCount |-> Len(items)], now))
                  /\ IF transporter
                     THEN /\ pending' = pending \cup {[kind |-> "order", order |-> order]}
                          /\ UNCHANGED resp
                     ELSE /\ Respond("order", 201, NoCred, [orderId |-> FormatOrderId(order.id)])
                          /\ UNCHANGED pending

\* sendMail settled (or failed, which is caught): the 201 goes out
OrderFinish(p) ==
    /\ p \in pending
    /\ p.kind = "order"
    /\ pending' = pending \ {p}
    /\ Respond("order", 201, NoCred, [orderId |-> FormatOrderId(p.order.id)])
    /\ UNCHANGED <<now, images, analyticsEvents, orders, orderIdCounter, sessionCache,
                   adminSessions, dataFile, sessionFile, uploadDir, fsMode, nextSweep,
                   rnd, transporter, tokens, hist>>

\* orders.find(o => o.id === orderId), 0 when there is none
OrderIndex(s, orderId) ==
    IF orderId.t = "number" /\ \E i \in 1..Len(s.orders) : s.orders[i].id = orderId.v
    THEN CHOOSE i \in 1..Len(s.orders) :
            /\ s.orders[i].id = orderId.v
            /\ \A j \in 1..(i - 1) : s.orders[j].id # orderId.v
    ELSE 0

\* the fields GET /api/orders/:orderId copies out of the order
OrderView(o) ==
    [id |-> FormatOrderId(o.id), status |-> o.status, customerName |-> o.customerName,
     items |-> o.items, totalAmount |-> o.totalAmount, createdAt |-> o.createdAt]

\* GET /api/orders/:orderId
GetOrder(externalId) ==
    /\ UNCHANGED <<now, images, analyticsEvents, orders, orderIdCounter, sessionCache,
                   adminSessions, dataFile, sessionFile, uploadDir, fsMode, nextSweep,
                   pending, rnd, transporter, tokens, hist>>
    /\ LET orderId == ParseInt(ReplaceFirst(externalId, <<"W", "D">>))
           i == OrderIndex(Store, orderId)
       IN IF i = 0
          THEN Respond("lookup", 404, NoCred, [asked |-> externalId])
          ELSE Respond("lookup", 200, NoCred,
                       [asked |-> externalId, order |-> OrderView(orders[i])])

(***************************************************************************)
(* The setInterval callback, the clock, the process and the file system    *)
(***************************************************************************)
\* hoursDiff > 2, with hoursDiff = (now - loginTime) / (1000 * 60 * 60)
\* mutant of SessionExpired: a session of exactly two hours is removed too
SessionExpiredAtTwoHours(session, t) == t - session.loginTime >= SessionMaxHours * MsPerHour

SessionExpired(session, t) == t - session.loginTime > SessionMaxHours * MsPerHour

sweepAdminSessions(s, t) ==
    [s EXCEPT !.adminSessions =
        [k \in {x \in DOMAIN @ : ~SessionExpired(@[x], t)} |-> @[k]]]

Sweep ==
    /\ now = nextSweep
    /\ nextSweep' = now + SweepInterval
    /\ Commit(sweepAdminSessions(clearExpiredSessions(Store, now), now))
    /\ UNCHANGED <<now, uploadDir, fsMode, pending, rnd, transporter, tokens, resp>>

\* instants the clock is observed at: every quarter of an hour
Instants(slots) == {k * CacheTTL : k \in 0..slots}

\* instants the clock is observed at: one minute after the start, every due
\* time of the interval callback, and around the second hour of each login
SessionInstants(slots) ==
    {t \in {OneMinute, nextSweep}
            \cup {hist.logins[i].at + m * OneMinute :
                    i \in 1..Len(hist.logins), m \in {119, 121}} :
        t <= slots * CacheTTL}

\* time passes up to the next instant; a due interval callback runs first
Tick(instants) ==
    /\ now < nextSweep
    /\ \E t \in instants :
        /\ t > now
        /\ t <= nextSweep
        /\ \A u \in instants : u > now => t <= u
        /\ now' = t
    /\ UNCHANGED <<images, analyticsEvents, orders, orderIdCounter, sessionCache,
                   adminSessions, dataFile, sessionFile, uploadDir, fsMode, nextSweep,
                   pending, rnd, transporter, tokens, resp, hist>>

\* mutant of Restart: the admin-session map is carried over to the new process
RestartKeepingSessions ==
    /\ hist.restarts < MaxRestarts
    /\ Commit([InitStorage(dataFile, sessionFile, fsMode, hist)
                 EXCEPT !.h.restarts = @ + 1, !.adminSessions = adminSessions])
    /\ nextSweep' = now + SweepInterval
    /\ pending' = {}
    /\ UNCHANGED <<now, uploadDir, fsMode, rnd, transporter, tokens, resp>>

\* the process ends and a new one starts: new GlobalImageStorage(), the
\* interval timer is set again, requests in flight are lost
Restart ==
    /\ hist.restarts < MaxRestarts
    /\ Commit([InitStorage(dataFile, sessionFile, fsMode, hist)
                 EXCEPT !.h.restarts = @ + 1])
    /\ nextSweep' = now + SweepInterval
    /\ pending' = {}
    /\ UNCHANGED <<now, uploadDir, fsMode, rnd, transporter, tokens, resp>>

\* SIGTERM / SIGINT handler
Shutdown ==
    /\ Commit(SaveSessionData(SaveGalleryData(Store, now)))
    /\ UNCHANGED <<now, uploadDir, fsMode, nextSweep, pending, rnd, transporter,
                   tokens, resp>>

\* the file system starts or stops failing writes
FsFault(mode) ==
    /\ fsMode # mode
    /\ fsMode' = mode
    /\ UNCHANGED <<now, images, analyticsEvents, orders, orderIdCounter, sessionCache,
                   adminSessions, dataFile, sessionFile, uploadDir, nextSweep,
                   pending, rnd, transporter, tokens, resp, hist>>

(***************************************************************************)
(* Initial state: a first start with no files                              *)
(***************************************************************************)
NoHistory ==
    [events |-> <<>>, orderIds |-> <<>>, imageIds |-> <<>>, logins |-> <<>>,
     loggedOut |-> {}, restarts |-> 0]

NoResponse == [n |-> 0, route |-> "none", status |-> 0, cred |-> NoCred, body |-> NoBody]

InitWith(s, mail) ==
    /\ now = 0
    /\ images = s.images
    /\ analyticsEvents = s.analyticsEvents
    /\ orders = s.orders
    /\ orderIdCounter = s.orderIdCounter
    /\ sessionCache = s.sessionCache
    /\ adminSessions = s.adminSessions
    /\ dataFile = s.dataFile
    /\ sessionFile = s.sessionFile
    /\ hist = s.h
    /\ uploadDir = {}
    /\ fsMode = "ok"
    /\ nextSweep = SweepInterval
    /\ pending = {}
    /\ rnd = 1
    /\ transporter = mail
    /\ tokens = {}
    /\ resp = NoResponse

Init == InitWith(InitStorage(Absent, Absent, "ok", NoHistory), FALSE)

\* the files an upload of this model can be stored under
FileNames == {p.filename : p \in {q \in pending : q.kind = "upload"}}
                \cup {images[i].filename : i \in 1..Len(images)}

\* The gallery: login, upload, view, delete, the public list, the clock,
\* the sweep and a restart
Next ==
    \/ resp.n < MaxResponses /\ Login("right")
    \/ resp.n < MaxResponses /\ \E c \in tokens : UploadStart(c, "file")
    \/ \E p \in pending : UploadFinish(p)
    \/ resp.n < MaxResponses /\ GetGallery
    \/ resp.n < MaxResponses /\ \E f \in FileNames : ViewImage(f)
    \/ resp.n < MaxResponses /\
         \E c \in tokens, id \in {images[i].id : i \in 1..Len(images)} \cup {0 - 1},
            unlinked \in BOOLEAN :
            DeleteImage(c, id, unlinked)
    \/ Sweep
    \/ Tick(Instants(MaxSlots))
    \/ Restart

Spec == Init /\ [][Next]_vars

\* The admin sessions: login, logout, every admin route with every kind of
\* credential, the clock and the sweep
NextSession ==
    \/ resp.n < MaxSessionResponses /\ \E input \in {"missing", "wrong", "right"} : Login(input)
    \/ resp.n < MaxSessionResponses /\ \E c \in Creds : Logout(c)
    \/ resp.n < MaxSessionResponses /\ Len(hist.imageIds) + Cardinality(pending) < MaxSessionUploads
          /\ \E c \in Creds : UploadStart(c, "file")
    \/ \E p \in pending : UploadFinish(p)
    \/ resp.n < MaxSessionResponses /\
         \E c \in Creds, id \in {images[i].id : i \in 1..Len(images)} \cup {0 - 1} :
            DeleteImage(c, id, TRUE)
    \/ resp.n < MaxSessionResponses /\ \E c \in Creds : AdminAnalytics(c)
    \/ resp.n < MaxSessionResponses /\ \E c \in Creds : AdminOrders(c, NaN)
    \/ Sweep
    \/ Tick(SessionInstants(MaxSessionSlots))

SpecSession == Init /\ [][NextSession]_vars

\* The order ledger: orders whose confirmation mail is in flight, failing
\* writes and a restart
InitOrders == InitWith(InitStorage(Absent, Absent, "ok", NoHistory), TRUE)

NextOrders ==
    \/ resp.n < MaxOrderResponses /\
         \E contact \in BOOLEAN, items \in ItemLists : PlaceOrder(contact, TRUE, items, FALSE)
    \/ \E p \in pending : OrderFinish(p)
    \/ \E mode \in {"ok", "openfail", "writefail"} : FsFault(mode)
    \/ Tick(Instants(MaxSlots))
    \/ Restart

SpecOrders == InitOrders /\ [][NextOrders]_vars

\* Every operation that writes the snapshot, on a file system that works
NextPersist ==
    \/ resp.n < MaxPersistResponses /\ Login("right")
    \/ resp.n < MaxPersistResponses /\ \E c \in tokens : UploadStart(c, "file")
    \/ \E p \in pending : UploadFinish(p)
    \/ resp.n < MaxPersistResponses /\ GetGallery
    \/ resp.n < MaxPersistResponses /\ \E f \in FileNames : ViewImage(f)
    \/ resp.n < MaxPersistResponses /\
         \E c \in tokens, id \in {images[i].id : i \in 1..Len(images)} \cup {0 - 1} :
            DeleteImage(c, id, TRUE)
    \/ resp.n < MaxPersistResponses /\ \E c \in tokens : AdminAnalytics(c)
    \/ resp.n < MaxPersistResponses /\ \E c \in tokens : AdminOrders(c, NaN)
    \/ resp.n < MaxPersistResponses /\
         \E type \in {"", "page_visit"} : Track(type, [n |-> Len(hist.events) + 1])
    \/ resp.n < MaxPersistResponses /\
         \E contact \in BOOLEAN, items \in ItemLists : PlaceOrder(contact, TRUE, items, FALSE)
    \/ \E p \in pending : OrderFinish(p)
    \/ Restart
    \/ Shutdown

SpecPersist == InitOrders /\ [][NextPersist]_vars

\* A server that has been up for a while: its log holds the page visits
\* tracked so far, one a millisecond, and the snapshot of the last of them
Tracked(n) == [i \in 1..n |-> NewEvent("page_visit", [n |-> i], i)]

StartLogs == {0, DiskCap - 1, MemCap - 1}

LongRunning(n) ==
    LET fresh == InitStorage(Absent, Absent, "ok", NoHistory)
        grown == [fresh EXCEPT !.analyticsEvents = Tracked(n), !.h.events = Tracked(n)]
    IN IF n = 0 THEN fresh ELSE SaveGalleryData(grown, n)

InitRetention ==
    \E n \in StartLogs :
        LET s == LongRunning(n) IN
        /\ now = n
        /\ images = s.images
        /\ analyticsEvents = s.analyticsEvents
        /\ orders = s.orders
        /\ orderIdCounter = s.orderIdCounter
        /\ sessionCache = s.sessionCache
        /\ adminSessions = s.adminSessions
        /\ dataFile = s.dataFile
        /\ sessionFile = s.sessionFile
        /\ hist = s.h
        /\ uploadDir = {}
        /\ fsMode = "ok"
        /\ nextSweep = SweepInterval
        /\ pending = {}
        /\ rnd = 1
        /\ transporter = FALSE
        /\ tokens = {}
        /\ resp = NoResponse

NextRetention ==
    \/ resp.n < MaxRetentionResponses /\ Login("right")
    \/ resp.n < MaxRetentionResponses /\ \E c \in tokens : UploadStart(c, "file")
    \/ \E p \in pending : UploadFinish(p)
    \/ resp.n < MaxRetentionResponses /\ Track("page_visit", [n |-> Len(hist.events) + 1])
    \/ resp.n < MaxRetentionResponses /\
         \E items \in ItemLists : PlaceOrder(TRUE, TRUE, items, FALSE)

SpecRetention == InitRetention /\ [][NextRetention]_vars

\* The limits a client gives to GET /api/admin/orders: parseInt of ?limit=,
\* NaN when the parameter is absent
Limits == {NaN, Num(0 - 1), Num(0), Num(1), Num(2), Num(50)}

\* The order ledger as clients and the admin use it: every kind of order
\* request, the admin's list, a restart
NextLedger ==
    \/ resp.n < MaxLedgerResponses /\ Login("right")
    \/ resp.n < MaxLedgerResponses /\
         \E contact, json, file \in BOOLEAN, items \in ItemLists :
            PlaceOrder(contact, json, items, file)
    \/ \E p \in pending : OrderFinish(p)
    \/ resp.n < MaxLedgerResponses /\ \E c \in tokens, limit \in Limits : AdminOrders(c, limit)
    \/ Restart

SpecLedger == InitOrders /\ [][NextLedger]_vars

\* A shop that took n orders, one a millisecond, each with its order_placed
\* event, and has just been started again from its snapshot (the history
\* variables start here)
Placed(n) ==
    [i \in 1..n |->
        [id |-> i, customerName |-> "c", items |-> <<>>, referenceImage |-> NoFile,
         totalAmount |-> Num(0), status |-> "pending", createdAt |-> i]]

PlacedEvents(n) ==
    [i \in 1..n |->
        NewEvent("order_placed",
                 [orderId |-> i, totalAmount |-> Num(0), itemCount |-> 0], i)]

LongLedger(n) ==
    LET fresh == InitStorage(Absent, Absent, "ok", NoHistory)
        grown == [fresh EXCEPT !.orders = Placed(n),
                               !.orderIdCounter = n + 1,
                               !.analyticsEvents = Last(PlacedEvents(n), MemCap)]
    IN IF n = 0 THEN fresh
       ELSE InitStorage(SnapshotOf(grown, n), Absent, "ok", NoHistory)

\* the ledgers the lookups start from: empty, short, and one order past the
\* last id that fits four digits
StartLedgers == {0, 8, FourDigitIds + 2}

InitLookup ==
    \E n \in StartLedgers :
        LET s == LongLedger(n) IN
        /\ now = n
        /\ images = s.images
        /\ analyticsEvents = s.analyticsEvents
        /\ orders = s.orders
        /\ orderIdCounter = s.orderIdCounter
        /\ sessionCache = s.sessionCache
        /\ adminSessions = s.adminSessions
        /\ dataFile = s.dataFile
        /\ sessionFile = s.sessionFile
        /\ hist = s.h
        /\ uploadDir = {}
        /\ fsMode = "ok"
        /\ nextSweep = SweepInterval
        /\ pending = {}
        /\ rnd = 1
        /\ transporter = FALSE
        /\ tokens = {}
        /\ resp = NoResponse

\* the ids a client asks for
ExternalIds ==
    {FormatOrderId(n) : n \in {1, 8, 9, FourDigitIds, FourDigitIds + 1,
                               FourDigitIds + 2, FourDigitIds + 3}}
        \cup {<<"W", "D">>, <<"W", "D", "x", "1">>}

NextLookup ==
    resp.n < MaxLookups /\ \E externalId \in ExternalIds : GetOrder(externalId)

SpecLookup == InitLookup /\ [][NextLookup]_vars

\* What an earlier run may have left in gallery-data.json: three images of
\* one instant, the second one hidden by hand in the file, a later image, a
\* page visit and an order; keys are the fields the file has
EarlierImages ==
    LET at(t, r) == NewImage([filename |-> <<t, r>>, uploadedBy |-> "admin"], t) IN
    <<at(0 - 2, 1), [at(0 - 2, 2) EXCEPT !.isPublic = FALSE], at(0 - 2, 3), at(0 - 1, 4)>>

EarlierSnapshot(keys) ==
    [kind |-> "json", keys |-> keys,
     images |-> EarlierImages,
     analytics |-> <<NewEvent("page_visit", [n |-> 1], 0 - 3)>>,
     orders |-> Placed(1),
     orderIdCounter |-> 2,
     lastUpdated |-> 0 - 1]

StartFiles ==
    {Absent, Corrupt, EarlierSnapshot(DataKeys), EarlierSnapshot({})}
        \cup {EarlierSnapshot(DataKeys \ {k}) : k \in DataKeys}

InitStartup ==
    \E df \in StartFiles : InitWith(InitStorage(df, Absent, "ok", NoHistory), FALSE)

\* A start from whatever file is there, then uploads, the public list,
\* views, the clock and a restart
NextStartup ==
    \/ resp.n < MaxStartupResponses /\ Login("right")
    \/ resp.n < MaxStartupResponses /\ \E c \in tokens : UploadStart(c, "file")
    \/ \E p \in pending : UploadFinish(p)
    \/ resp.n < MaxStartupResponses /\ GetGallery
    \/ resp.n < MaxStartupResponses /\ \E f \in FileNames : ViewImage(f)
    \/ Tick(Instants(MaxSlots))
    \/ Restart

SpecStartup == InitStartup /\ [][NextStartup]_vars

\* The session cache by itself: writes and reads of two keys while the
\* millisecond clock may advance between the two Date.now() of a write
CacheKeys == {"gallery", "menu"}

CacheValues ==
    {<<>>, <<NewImage([filename |-> <<0, 1>>, uploadedBy |-> "admin"], 0)>>}

\* updateSessionCache(key, value); lag: the milliseconds between its two
\* reads of the clock
CacheSet(key, value, lag) ==
    /\ (now % CacheTTL) + lag <= MaxDrift
    /\ now' = now + lag
    /\ Commit(updateSessionCacheAt(Store, key, value, now, now + lag))
    /\ UNCHANGED <<uploadDir, fsMode, nextSweep, pending, rnd, transporter, tokens, resp>>

\* getFromSessionCache(key)
CacheGet(key) ==
    /\ Commit(getFromSessionCache(Store, key, now))
    /\ UNCHANGED <<now, uploadDir, fsMode, nextSweep, pending, rnd, transporter, tokens,
                   resp>>

NextCache ==
    \/ \E key \in CacheKeys, value \in CacheValues, lag \in {0, 1} : CacheSet(key, value, lag)
    \/ \E key \in CacheKeys : CacheGet(key)
    \/ Tick(Instants(MaxSlots))
    \/ Restart

SpecCache == Init /\ [][NextCache]_vars

(***************************************************************************)
(* Claims                                                                  *)
(***************************************************************************)
\* a step that sends a response on the given route
Answers(route) == resp'.n # resp.n /\ resp'.route = route

\* C1: whenever GET /api/gallery is answered from a cache hit on 'gallery',
\* the list served is the list a miss would serve, getPublicImages() of the
\* current registry: same records, same order, same views.
C1_CacheHitServesRegistry ==
    [][Answers("gallery") /\ resp'.body.hit
        => resp'.body.images = Served(getPublicImages(Store'))]_vars

\* C2: an admin session created at T is valid at T + 1h59m and invalid at
\* T + 2h01m when validateAdminSession is asked directly (the session was
\* not logged out).
C2_SessionValidForTwoHours ==
    \A i \in 1..Len(hist.logins) :
        LET l == hist.logins[i] IN
        l.sessionId \notin hist.loggedOut =>
            /\ now = l.at + 119 * OneMinute => validateAdminSession(Store, l.sessionId)
            /\ now = l.at + 121 * OneMinute => ~validateAdminSession(Store, l.sessionId)

\* what the claims call an authorized request: the token verifies, carries
\* isAdmin, and its sessionId is in the admin-session map
Authorized(c) ==
    /\ c.kind = "bearer"
    /\ c.signed
    /\ now < c.exp
    /\ c.isAdmin
    /\ c.sessionId \in DOMAIN adminSessions

AdminRoutes == {"upload", "delete", "analytics", "orders"}

\* a step that answers a request on one of the routes without resuming a
\* suspended one
AnswersAtOnce(routes) ==
    /\ resp'.n # resp.n
    /\ resp'.route \in routes
    /\ pending' = pending

\* C3: on every admin route the handler body runs only for an authorized
\* request; any other is answered 401 (403 when the token is not an admin's)
\* and images, orders, orderIdCounter, analytics and the cache stay as they are.
C3_AdminRoutesNeedSession ==
    [][/\ AnswersAtOnce(AdminRoutes) =>
            IF Authorized(resp'.cred)
            THEN resp'.status \notin {401, 403}
            ELSE /\ resp'.status =
                        IF /\ resp'.cred.kind = "bearer"
                           /\ resp'.cred.signed
                           /\ now < resp'.cred.exp
                           /\ ~resp'.cred.isAdmin
                        THEN 403 ELSE 401
                 /\ UNCHANGED <<images, orders, orderIdCounter, analyticsEvents,
                                sessionCache>>
       /\ \A p \in pending' \ pending : p.kind = "upload" => Authorized(p.cred)]_vars

\* a signed, unexpired admin token was refused because its session is gone
C3_Refused ==
    /\ resp.route = "delete"
    /\ resp.status = 401
    /\ resp.cred \in tokens
    /\ now < resp.cred.exp
    /\ analyticsEvents # <<>>

\* C4: a logout with a valid token answers success and leaves the token's
\* sessionId out of the admin-session map; every later admin request with
\* that token is answered 401, although the token has not expired.
C4_LogoutRevokes ==
    [][/\ Answers("logout") /\ Authorized(resp'.cred) =>
            /\ resp'.status = 200
            /\ resp'.body.success
            /\ resp'.cred.sessionId \notin DOMAIN adminSessions'
       /\ /\ AnswersAtOnce(AdminRoutes \cup {"logout"})
          /\ resp'.cred \in tokens
          /\ resp'.cred.sessionId \in hist.loggedOut
          => resp'.status = 401
       /\ \A p \in pending' \ pending :
            p.kind = "upload" => p.cred.sessionId \notin hist.loggedOut]_vars

\* after a logout, the same unexpired token was sent again and refused
C4_RefusedAfterLogout ==
    /\ resp.route \in AdminRoutes
    /\ resp.status = 401
    /\ resp.cred \in tokens
    /\ resp.cred.sessionId \in hist.loggedOut
    /\ now < resp.cred.exp

\* C5: order ids start at 1, grow strictly in creation order, and no id is
\* ever given to two orders, across in-flight requests, swallowed write
\* failures and restarts.
C5_OrderIdsNeverReused ==
    /\ hist.orderIds # <<>> => hist.orderIds[1] = 1
    /\ \A i, j \in 1..Len(hist.orderIds) : i < j => hist.orderIds[i] < hist.orderIds[j]

\* C10: no two records of the registry have the same id, and an id once
\* used is not given to a later image.
C10_ImageIdsUnique ==
    /\ \A i, j \in 1..Len(images) : i # j => images[i].id # images[j].id
    /\ \A i, j \in 1..Len(hist.imageIds) : i # j => hist.imageIds[i] # hist.imageIds[j]

\* C9: a delete of an id that matches no record answers 404 and leaves the
\* registry, the snapshot and the cache as they are; a delete of an id that
\* matches removes one record, which has that id: the registry is one
\* shorter and the other records keep their content and their order.
C9_DeleteRemovesOneRecord ==
    [][Answers("delete") /\ resp'.status \notin {401, 403} =>
        LET id == resp'.body.id
            found == \E i \in 1..Len(images) : images[i].id = id
        IN /\ resp'.status = IF found THEN 200 ELSE 404
           /\ ~found => UNCHANGED <<images, dataFile, sessionCache, sessionFile>>
           /\ found =>
                /\ Len(images') = Len(images) - 1
                /\ \E i \in 1..Len(images) :
                    /\ images[i].id = id
                    /\ \A j \in 1..(i - 1) : images'[j] = images[j]
                    /\ \A j \in i..Len(images') : images'[j] = images[j + 1]]_vars

\* a record was deleted from a registry of two, and the older one stays
C9_DeletedOneOfTwo ==
    /\ resp.route = "delete"
    /\ resp.status = 200
    /\ Len(images) = 1
    /\ images[1].id # resp.body.id
    /\ Len(hist.imageIds) = 2
    /\ images[1].filename[2] < resp.body.filename[2]

\* What JSON keeps of a number, an order and an event: NaN is written as null
NullForNaN(x) == IF x = NaN THEN Null ELSE x

OrderOnDisk(o) == [o EXCEPT !.totalAmount = NullForNaN(@)]

EventOnDisk(e) ==
    IF e.type = "order_placed" THEN [e EXCEPT !.data.totalAmount = NullForNaN(@)] ELSE e

\* the n most recent elements of seq, all of them when it has fewer
MostRecent(seq, n) ==
    LET k == IF Len(seq) < n THEN Len(seq) ELSE n
    IN [i \in 1..k |-> seq[Len(seq) - k + i]]

DiskHoldsMemory ==
    /\ dataFile.kind = "json"
    /\ dataFile.images = images
    /\ dataFile.orderIdCounter = orderIdCounter
    /\ dataFile.orders = [i \in 1..Len(orders) |-> OrderOnDisk(orders[i])]
    /\ dataFile.analytics =
        [i \in 1..Len(MostRecent(analyticsEvents, DiskCap)) |->
            EventOnDisk(MostRecent(analyticsEvents, DiskCap)[i])]

NeverWritten ==
    /\ dataFile = Absent
    /\ images = <<>> /\ orders = <<>> /\ analyticsEvents = <<>>
    /\ orderIdCounter = InitialOrderId

\* C6: while no write fails, at every response the snapshot file holds the
\* images, the orders and the order counter of memory and the last 5,000
\* events of the log, as JSON writes them (or nothing was ever changed and
\* no file exists): each mutating operation has written the snapshot before
\* its handler answers.
C6_SnapshotWrittenBeforeResponse ==
    [][resp'.n # resp.n => DiskHoldsMemory' \/ NeverWritten']_vars

\* a view was counted and answered, and the file has the new count
C6_ViewCountOnDisk ==
    /\ resp.route = "view"
    /\ Len(images) = 1
    /\ images[1].views = 1
    /\ dataFile.kind = "json"
    /\ dataFile.images[1].views = 1

Reloaded ==
    LoadGalleryData(
        Constructed(SaveGalleryData([Store EXCEPT !.fs = "ok"], now).dataFile,
                    Absent, "ok", hist))

\* C7 as stated: a save followed by a load in a fresh instance gives back
\* the images, the orders, the events and the order counter that were saved.
C7_RoundTripIdentical ==
    /\ Reloaded.images = images
    /\ Reloaded.orders = orders
    /\ Reloaded.analyticsEvents = analyticsEvents
    /\ Reloaded.orderIdCounter = orderIdCounter

\* C7 amended: a save followed by a load in a fresh instance gives back the
\* images and the order counter that were saved; of the K events it gives
\* back the last 5,000 (all of them when K <= 5000); orders and events come
\* back the same except that a totalAmount of NaN comes back as null.
C7_RoundTripUpToRetention ==
    /\ Reloaded.images = images
    /\ Reloaded.orderIdCounter = orderIdCounter
    /\ Reloaded.orders = [i \in 1..Len(orders) |-> OrderOnDisk(orders[i])]
    /\ Reloaded.analyticsEvents =
        [i \in 1..Len(MostRecent(analyticsEvents, DiskCap)) |->
            EventOnDisk(MostRecent(analyticsEvents, DiskCap)[i])]

\* a store with an image, an order whose total is NaN and more than 5,000 events
C7_LongLogAndNaNOrder ==
    /\ Len(images) >= 1
    /\ \E i \in 1..Len(orders) : orders[i].totalAmount = NaN
    /\ Len(analyticsEvents) > DiskCap
    /\ Len(Reloaded.analyticsEvents) = DiskCap

\* C8: the log in memory never holds more than 10,000 events and they are
\* the most recent ones to arrive, in arrival order; a snapshot never holds
\* more than 5,000 events and they are the most recent ones of the log in
\* memory, in the same order.
C8_BoundedRetention ==
    /\ Len(analyticsEvents) <= MemCap
    /\ analyticsEvents = MostRecent(hist.events, MemCap)
    /\ dataFile.kind = "json" =>
        /\ Len(dataFile.analytics) <= DiskCap
        /\ dataFile.analytics =
            [i \in 1..Len(MostRecent(analyticsEvents, DiskCap)) |->
                EventOnDisk(MostRecent(analyticsEvents, DiskCap)[i])]

\* more events arrived than memory keeps: the oldest one is gone
C8_OldestDropped ==
    /\ Len(hist.events) > MemCap
    /\ Len(analyticsEvents) = MemCap
    /\ analyticsEvents[1] # hist.events[1]
    /\ dataFile.kind = "json"
    /\ Len(dataFile.analytics) = DiskCap

\* C11: an order request without customerName, email or phone, or whose
\* items string is not valid JSON, is answered 400 and changes neither the
\* orders, the order counter, the analytics log, the snapshot file nor the
\* upload directory.
C11_InvalidOrderRejectedCleanly ==
    [][\A contact, json, file \in BOOLEAN, items \in ItemLists :
        (~contact \/ ~json) /\ PlaceOrder(contact, json, items, file) =>
            /\ resp'.status = 400
            /\ UNCHANGED <<orders, orderIdCounter, analyticsEvents, dataFile, uploadDir>>]_vars

\* the number written by a string of digits, read from the left
RECURSIVE Decimal(_, _)
Decimal(str, acc) ==
    IF str = <<>> THEN acc
    ELSE Decimal(Tail(str), 10 * acc + (CHOOSE d \in 0..9 : DigitChars[d + 1] = Head(str)))

\* str is "WD" followed by n in decimal, filled with zeros on the left up to
\* four digits and no further
IsExternalIdOf(str, n) ==
    /\ Len(str) >= 6
    /\ str[1] = "W" /\ str[2] = "D"
    /\ \A k \in 3..Len(str) : \E d \in 0..9 : DigitChars[d + 1] = str[k]
    /\ Decimal(SubSeq(str, 3, Len(str)), 0) = n
    /\ Len(str) > 6 => str[3] # "0"

\* C12: a lookup by the external id of a stored order ("WD" and the id
\* padded to four digits, ids of 10000 and more included) answers with
\* that order; a lookup by an external id whose number is the id of no
\* stored order answers 404.
C12_LookupByExternalId ==
    [][Answers("lookup") =>
        LET asked == resp'.body.asked IN
        /\ \A i \in 1..Len(orders) :
            IsExternalIdOf(asked, orders[i].id) =>
                /\ resp'.status = 200
                /\ resp'.body.order.id = asked
                /\ resp'.body.order.customerName = orders[i].customerName
                /\ resp'.body.order.items = orders[i].items
                /\ resp'.body.order.totalAmount = orders[i].totalAmount
                /\ resp'.body.order.status = orders[i].status
                /\ resp'.body.order.createdAt = orders[i].createdAt
        /\ (\E n \in 1..(FourDigitIds + 3) :
                /\ IsExternalIdOf(asked, n)
                /\ \A i \in 1..Len(orders) : orders[i].id # n) => resp'.status = 404]_vars

\* order 10000 was asked for by its five-digit id and came back
C12_FiveDigitIdFound ==
    /\ resp.route = "lookup"
    /\ resp.status = 200
    /\ resp.body.asked = <<"W", "D", "1", "0", "0", "0", "0">>
    /\ resp.body.order.createdAt = FourDigitIds + 1

\* an id one past the ledger was asked for
C12_UnknownIdNotFound ==
    /\ resp.route = "lookup"
    /\ resp.status = 404
    /\ resp.body.asked = <<"W", "D", "0", "0", "0", "9">>
    /\ Len(orders) = 8

\* C13: the admin's list for an integer limit holds min(limit, number of
\* orders) orders (none for a limit below 1), the most recently inserted
\* ones, newest first; without a limit it holds the 50 most recent; the
\* ledger is not modified.
C13_ListHoldsTheMostRecent ==
    [][Answers("orders") /\ resp'.status = 200 =>
        LET limit == resp'.body.asked
            wanted == IF limit = NaN THEN 50 ELSE limit.v
            least == IF wanted < Len(orders) THEN wanted ELSE Len(orders)
            count == IF least < 0 THEN 0 ELSE least
            list == resp'.body.orders
        IN /\ Len(list) = count
           /\ \A k \in 1..Len(list) : list[k] = orders[Len(orders) + 1 - k]
           /\ orders' = orders]_vars

\* C14: a read of the session cache at time now gives the cached data and
\* leaves the entry where it is when now < expires; when now >= expires, or
\* the key is not there, it is a miss and the key is not in the map
\* afterwards.  Entries reloaded from the cache file behave the same.
C14_CacheReadHonoursExpiry ==
    \A key \in {"gallery", "menu"} :
        LET after == getFromSessionCache(Store, key, now) IN
        IF key \in DOMAIN sessionCache /\ now < sessionCache[key].expires
        THEN /\ CacheHit(Store, key, now)
             /\ CacheData(Store, key) = sessionCache[key].data
             /\ after.sessionCache = sessionCache
        ELSE /\ ~CacheHit(Store, key, now)
             /\ key \notin DOMAIN after.sessionCache
             /\ \A other \in DOMAIN sessionCache \ {key} :
                    /\ other \in DOMAIN after.sessionCache
                    /\ after.sessionCache[other] = sessionCache[other]

\* an entry reloaded from the cache file is read at the instant it expires,
\* and the gallery was answered from the registry
C14_ReloadedEntryAtExpiry ==
    /\ "gallery" \in DOMAIN sessionCache
    /\ ~sessionCache["gallery"].live
    /\ now = sessionCache["gallery"].expires
    /\ hist.restarts = 1

\* C15: counting a view of a filename that no record has gives 0, adds no
\* record, changes no count, writes no snapshot; for a filename that a
\* record has, the count of that record goes up by one, the new count is
\* returned, and the other records stay as they are.
C15_ViewCountedOnlyOnMatch ==
    [][Answers("view") =>
        LET filename == analyticsEvents'[Len(analyticsEvents')].data.filename
            matching == {i \in 1..Len(images) : images[i].filename = filename}
            counted == incrementImageViews(Store, filename, now)
        IN /\ Len(images') = Len(images)
           /\ \A i \in (1..Len(images)) \ matching : images'[i] = images[i]
           /\ matching = {} =>
                /\ resp'.body.views = 0
                /\ counted.images = images
                /\ counted.dataFile = dataFile
                /\ dataFile'.images = images
           /\ \A i \in matching :
                /\ images'[i] = [images[i] EXCEPT !.views = images[i].views + 1]
                /\ resp'.body.views = images'[i].views
                /\ dataFile'.images[i].views = images'[i].views]_vars

\* a view of a file that is still being uploaded was answered with 0 while
\* the registry holds another image
C15_ViewOfUnknownFile ==
    /\ resp.route = "view"
    /\ resp.body.views = 0
    /\ Len(images) = 1
    /\ images[1].views = 0
    /\ analyticsEvents[Len(analyticsEvents)].data.filename # images[1].filename

\* the second view of an image was answered with 2
C15_SecondViewCounted ==
    /\ resp.route = "view"
    /\ resp.body.views = 2
    /\ images[1].views = 2

\* the place a public record has in the list: behind the public records
\* uploaded later and behind the ones of its own instant inserted before it
PlaceInList(i) ==
    1 + Cardinality({j \in 1..Len(images) :
            /\ images[j].isPublic
            /\ \/ images[j].uploadedAt > images[i].uploadedAt
               \/ images[j].uploadedAt = images[i].uploadedAt /\ j < i})

\* C16: getPublicImages() gives the records with isPublic = true and no
\* other, newest upload first, records of one instant in insertion order.
C16_PublicNewestFirstStable ==
    LET list == getPublicImages(Store)
        public == {i \in 1..Len(images) : images[i].isPublic}
    IN /\ Len(list) = Cardinality(public)
       /\ \A i \in public : list[PlaceInList(i)] = images[i]

\* the list was served from a registry with a hidden record, two public
\* records of one instant and a newer upload
C16_ListServedWithHiddenRecord ==
    /\ resp.route = "gallery"
    /\ ~resp.body.hit
    /\ Len(images) = 5
    /\ ~images[2].isPublic
    /\ images[1].uploadedAt = images[3].uploadedAt
    /\ Len(resp.body.images) = 4
    /\ resp.body.images[1].id = images[5].id
    /\ resp.body.images[3].id = images[1].id /\ resp.body.images[3].filename = images[1].filename

LoadedFromFile ==
    IF dataFile.kind = "json"
    THEN /\ images = IF "images" \in dataFile.keys THEN dataFile.images ELSE <<>>
         /\ analyticsEvents = IF "analytics" \in dataFile.keys THEN dataFile.analytics ELSE <<>>
         /\ orders = IF "orders" \in dataFile.keys THEN dataFile.orders ELSE <<>>
         /\ orderIdCounter = IF "orderIdCounter" \in dataFile.keys
                             THEN dataFile.orderIdCounter ELSE InitialOrderId
    ELSE /\ images = <<>> /\ analyticsEvents = <<>> /\ orders = <<>>
         /\ orderIdCounter = InitialOrderId

\* C19: a process that starts loads what the snapshot file holds; it has
\* empty images, analytics and orders and an order counter of 1 when the
\* file is absent, unreadable or not JSON; and the empty default for just
\* the fields a valid file lacks.
C19_StartsFromFileOrDefaults ==
    [][hist'.restarts # hist.restarts => LoadedFromFile']_vars

\* a restart from a file without orders: the images are back, no order is
C19_RestartedWithoutOrders ==
    /\ hist.restarts = 1
    /\ dataFile.kind = "json"
    /\ "orders" \notin dataFile.keys
    /\ orders = <<>>
    /\ Len(images) = 4
    /\ orderIdCounter = 2

\* the sum of price * quantity over items, as JavaScript adds and multiplies
RECURSIVE SumOfLines(_)
SumOfLines(items) ==
    IF items = <<>> THEN Num(0)
    ELSE LET n == Len(items) IN
         JsAdd(SumOfLines(SubSeq(items, 1, n - 1)), JsMul(items[n].price, items[n].quantity))

\* C17: every order of the ledger has the total its items add up to (250
\* for 100 x 2 and 50 x 1, 0 for no items) and the status 'pending', whatever
\* has happened since it was placed; the id an accepted order is answered
\* with is "WD" and its number padded to four digits.
C17_TotalAndStatusKept ==
    [][/\ \A i \in 1..Len(orders') :
            /\ orders'[i].totalAmount = SumOfLines(orders'[i].items)
            /\ orders'[i].items = <<>> => orders'[i].totalAmount = Num(0)
            /\ Len(orders'[i].items) = 2 => orders'[i].totalAmount = Num(250)
            /\ orders'[i].status = "pending"
       /\ Answers("order") /\ resp'.status = 201 =>
            IF pending' = pending
            THEN IsExternalIdOf(resp'.body.orderId, orderIdCounter)
            ELSE \E p \in pending \ pending' : IsExternalIdOf(resp'.body.orderId, p.order.id)]_vars

\* C18: when the snapshot cannot be written while an order is placed, the
\* order and its event are in memory all the same, the request is answered
\* 201 like any other, and the snapshot file keeps the content it had.
C18_FailedWriteKeepsFile ==
    [][/\ fsMode # "ok" /\ Len(hist'.orderIds) > Len(hist.orderIds) =>
            /\ Len(orders') = Len(orders) + 1
            /\ orders'[Len(orders')].id = orderIdCounter
            /\ orderIdCounter' = orderIdCounter + 1
            /\ Len(analyticsEvents') = Len(analyticsEvents) + 1
            /\ analyticsEvents'[Len(analyticsEvents')].type = "order_placed"
            /\ dataFile' = dataFile
       /\ fsMode # "ok" /\ Answers("order") /\ pending' # pending => resp'.status = 201]_vars

\* C20: when the stored file of a deleted image cannot be removed, the
\* delete is answered 200 all the same, the record is out of the registry,
\* and the snapshot and the 'gallery' cache entry hold the registry
\* without it.
C20_DeleteSurvivesUnlinkFailure ==
    [][/\ Answers("delete")
       /\ resp'.status \notin {401, 403}
       /\ \E i \in 1..Len(images) :
            /\ images[i].id = resp'.body.id
            /\ \A j \in 1..(i - 1) : images[j].id # resp'.body.id
            /\ images[i].filename \in uploadDir'
       => /\ resp'.status = 200
          /\ resp'.body.filename \in uploadDir'
          /\ Len(images') = Len(images) - 1
          /\ \A j \in 1..Len(images') : images'[j].filename # resp'.body.filename
          /\ dataFile'.kind = "json"
          /\ dataFile'.images = images'
          /\ "gallery" \in DOMAIN sessionCache'
          /\ sessionCache'["gallery"].data = getPublicImages(Store')
          /\ \A j \in 1..Len(sessionCache'["gallery"].data) :
                sessionCache'["gallery"].data[j].filename # resp'.body.filename]_vars

\* an image was deleted while its file stayed in the upload directory
C20_FileLeftBehind ==
    /\ resp.route = "delete"
    /\ resp.status = 200
    /\ resp.body.filename \in uploadDir
    /\ images = <<>>
    /\ dataFile.images = <<>>
    /\ sessionCache["gallery"].data = <<>>

C22_RegistryChangeRefreshesCache ==
    [][images' # images /\ hist'.restarts = hist.restarts =>
        /\ "gallery" \in DOMAIN sessionCache'
        /\ sessionCache'["gallery"].expires > now
        /\ sessionCache'["gallery"].timestamp = now
        /\ sessionCache'["gallery"].expires = now + CacheTTL
        /\ sessionCache'["gallery"].data = getPublicImages(Store')]_vars

\* C23: updateSessionCache(key, value) leaves an entry for key that holds
\* value and whose expires is exactly its timestamp plus 15 minutes, in
\* place of any entry the key had; the entries of the other keys stay as
\* they are; and the session file holds the whole map as it is in memory.
C23_CacheWriteStampsFifteenMinutes ==
    [][\A key \in CacheKeys, value \in CacheValues, lag \in {0, 1} :
        CacheSet(key, value, lag) =>
            /\ key \in DOMAIN sessionCache'
            /\ sessionCache'[key].data = value
            /\ sessionCache'[key].expires = sessionCache'[key].timestamp + CacheTTL
            /\ DOMAIN sessionCache' = DOMAIN sessionCache \cup {key}
            /\ \A other \in DOMAIN sessionCache \ {key} :
                    sessionCache'[other] = sessionCache[other]
            /\ sessionFile' = SessionDocOf(Store')]_vars

\* C24: when the interval callback has run clearExpiredSessions at time now,
\* every entry left in the cache is one that getFromSessionCache returns as
\* a hit at that instant, no entry that had not expired was removed, and if
\* an entry was removed the session file holds the map as it is in memory.
C24_SweepLeavesOnlyHits ==
    [][nextSweep' # nextSweep /\ hist'.restarts = hist.restarts =>
        /\ \A k \in DOMAIN sessionCache' : CacheHit(Store', k, now)
        /\ \A k \in DOMAIN sessionCache :
                sessionCache[k].expires > now =>
                    k \in DOMAIN sessionCache' /\ sessionCache'[k] = sessionCache[k]
        /\ DOMAIN sessionCache' # DOMAIN sessionCache =>
                sessionFile' = SessionDocOf(Store')]_vars

\* C25: a run of the periodic sweep removes every admin session older than
\* 2 hours and none of 2 hours or less; with a run every 30 minutes, a
\* session that is not logged out is removed by nothing before it is 2
\* hours old, and is gone once the sweep has run at 2 hours 30 minutes.
C25_SweepRemovesAfterTwoHours ==
    [][/\ nextSweep' # nextSweep =>
            \A sid \in DOMAIN adminSessions :
                sid \in DOMAIN adminSessions' <=>
                    now - adminSessions[sid].loginTime <= SessionMaxHours * MsPerHour
       /\ \A i \in 1..Len(hist.logins) :
            LET l == hist.logins[i] IN
            l.sessionId \notin hist'.loggedOut =>
                /\ l.sessionId \in DOMAIN adminSessions /\ l.sessionId \notin DOMAIN adminSessions'
                        => now - l.at > SessionMaxHours * MsPerHour
                /\ now' - l.at < SessionMaxHours * MsPerHour
                        => l.sessionId \in DOMAIN adminSessions'
                /\ \/ now' - l.at > SessionMaxHours * MsPerHour + SweepInterval
                   \/ /\ now' - l.at = SessionMaxHours * MsPerHour + SweepInterval
                      /\ nextSweep' > now'
                   => l.sessionId \notin DOMAIN adminSessions']_vars

\* a session created at the start was still there after the sweep at 2
\* hours and is gone after the sweep at 2 hours 30 minutes
C25_RemovedAtTwoAndAHalfHours ==
    /\ hist.logins # <<>>
    /\ hist.logins[1].at = 0
    /\ hist.loggedOut = {}
    /\ now = SessionMaxHours * MsPerHour + SweepInterval
    /\ nextSweep > now
    /\ adminSessions = <<>>

\* C26: the views of a record are 0 when the record is created and never go
\* down while the record exists; they change only where incrementImageViews
\* counts a view; and incrementImageViews leaves the other fields of that
\* record, the other records, the orders, the order counter and the
\* analytics log as they are.
C26_ViewsOnlyCountedUp ==
    [][/\ \A i \in 1..Len(images') :
            LET before == {j \in 1..Len(images) : images[j].filename = images'[i].filename}
            IN /\ before = {} => images'[i].views = 0
               /\ \A j \in before :
                    /\ images'[i].views >= images[j].views
                    /\ images'[i].views # images[j].views => Answers("view")
       /\ \A f \in FileNames :
            LET counted == incrementImageViews(Store, f, now) IN
            /\ counted.orders = orders
            /\ counted.orderIdCounter = orderIdCounter
            /\ counted.analyticsEvents = analyticsEvents
            /\ Len(counted.images) = Len(images)
            /\ \A j \in 1..Len(images) :
                    counted.images[j] =
                        IF images[j].filename = f
                        THEN [images[j] EXCEPT !.views = images[j].views + 1]
                        ELSE images[j]]_vars

\* beside an order, an event and three other records, a record has been
\* viewed twice and the count has come back from the file after a restart
C26_CountKeptOverRestart ==
    /\ hist.restarts = 1
    /\ Len(orders) = 1
    /\ Len(images) = 4
    /\ images[3].views = 2
    /\ images[1].views = 0
    /\ analyticsEvents # <<>>

\* a list of records without their view counts
WithoutViews(list) == [j \in 1..Len(list) |-> [list[j] EXCEPT !.views = 0]]

\* C27: addImage and removeImage change the registry and refresh the
\* 'gallery' entry in one step: in no state that a handler or the sweep can
\* start from does the entry hold the list of records of before a change
\* that the registry already has.
C27_MutationAndRefreshAtOnce ==
    "gallery" \in DOMAIN sessionCache =>
        WithoutViews(sessionCache["gallery"].data) = WithoutViews(getPublicImages(Store))

\* one upload has been added and cached while another is still in flight
C27_AddedWhileAnotherUploads ==
    /\ pending # {}
    /\ Len(images) = 1
    /\ "gallery" \in DOMAIN sessionCache
    /\ Len(sessionCache["gallery"].data) = 1
    /\ sessionCache["gallery"].timestamp = images[1].uploadedAt
    /\ resp.route = "upload"

\* C28: between the session check of an upload and its addImage lies the
\* asynchronous file upload; whatever the sweep or a logout does in between,
\* addImage runs only while the session of the uploading admin is in the
\* admin-session map.
C28_UploadAddsOnlyWithSession ==
    [][Len(hist'.imageIds) > Len(hist.imageIds) =>
        /\ Answers("upload")
        /\ resp'.cred.sessionId \in DOMAIN adminSessions]_vars

\* C29: GET /api/gallery answers cached = true, and tracks the source
\* 'cache', exactly when the list it serves came from a cache hit; after a
\* miss that computed the list from the registry it answers cached = false
\* and tracks the source 'storage'.
C29_CachedMeansCacheHit ==
    [][Answers("gallery") =>
        LET event == analyticsEvents'[Len(analyticsEvents')]
            hit == CacheHit(Store, "gallery", now)
        IN /\ resp'.body.cached <=> hit
           /\ event.type = "gallery_viewed"
           /\ event.data.source = IF hit THEN "cache" ELSE "storage"]_vars

\* C30: the admin sessions live in memory only: a restart leaves the
\* admin-session map empty, and every admin route answers 401 to a token
\* issued before the restart although the token has not expired; the
\* images, the orders, the order counter and the events of the snapshot
\* are there again after the restart.
C30_SessionsLostDataKept ==
    [][/\ hist'.restarts # hist.restarts =>
            /\ adminSessions' = <<>>
            /\ images' = images
            /\ orderIdCounter' = orderIdCounter
            /\ orders' = [i \in 1..Len(orders) |-> OrderOnDisk(orders[i])]
            /\ analyticsEvents' =
                    [i \in 1..Len(MostRecent(analyticsEvents, DiskCap)) |->
                        EventOnDisk(MostRecent(analyticsEvents, DiskCap)[i])]
       /\ /\ AnswersAtOnce(AdminRoutes)
          /\ resp'.cred \in tokens
          /\ \E i \in 1..Len(hist.logins) :
                /\ hist.logins[i].sessionId = resp'.cred.sessionId
                /\ hist.logins[i].run < hist.restarts
          => resp'.status = 401
       /\ \A p \in pending' \ pending :
            p.kind = "upload" =>
                \A i \in 1..Len(hist.logins) :
                    hist.logins[i].sessionId = p.cred.sessionId =>
                        hist.logins[i].run = hist.restarts]_vars

\* after a login, an upload and a restart the image is still there and the
\* token of before the restart, not yet expired, was refused
C30_OldTokenRefused ==
    /\ hist.restarts = 1
    /\ resp.route \in AdminRoutes
    /\ resp.status = 401
    /\ resp.cred \in tokens
    /\ now < resp.cred.exp
    /\ hist.logins # <<>>
    /\ hist.logins[1].run = 0
    /\ hist.logins[1].sessionId = resp.cred.sessionId
    /\ Len(images) = 1

====
